---- MODULE Spec2Model ----
(***************************************************************************)
(* A model of examples/slog.py: the sparse logistic regression example.    *)
(*                                                                         *)
(* Three specifications share the module:                                  *)
(*   Spec      the control flow of main(args), run after run;              *)
(*   SpecData  get_data(N, S, P, seed), statement by statement;            *)
(*   SpecThin  the thinning loop that ends run_inference.                  *)
(*                                                                         *)
(* Numbers: posterior means and standard deviations are floats in the      *)
(* program; the model draws them from small sets of integers that contain  *)
(* every case of the comparisons made on them (interval strictly around    *)
(* zero, interval ending at zero, interval away from zero).  The values    *)
(* produced by the sampler and by the vmapped linear algebra are inputs of *)
(* the script and are drawn nondeterministically.                          *)
(***************************************************************************)
EXTENDS Integers, Sequences, FiniteSets, TLC

VARIABLES
    \* ---- main(args) ----
    pc,               \* the statement main is at, "done" or "error"
    err,              \* the exception that ended the run, or "none"
    args,             \* the parsed command line
    run,              \* which run of the script this is
    files,            \* the files of the file system (outlives a run)
    trace,            \* the steps of main finished in this run, in order
    n_idx,            \* position of the loop "for N in [200]"
    means, stds,      \* the arrays of line 219
    dim,              \* loop variable of line 229
    mean, std,        \* loop variables of lines 229 and 259
    active_dims,
    dim_pairs,        \* line 256
    pair_idx,         \* position of the loop of line 259
    pair_lines,       \* the pair verdicts printed at lines 266 and 270
    active_quad_dims,
    \* ---- get_data ----
    gd_pc, gd_err, gd_N, gd_S, gd_P, gd_W, gd_X, gd_logit, gd_Y, gd_ret,
    \* ---- run_inference ----
    th_pc, th_err, th_args, th_draws, th_samples, th_i, th_ret

mainVars == <<pc, err, args, run, files, trace, n_idx, means, stds, dim, mean,
              std, active_dims, dim_pairs, pair_idx, pair_lines,
              active_quad_dims>>
dataVars == <<gd_pc, gd_err, gd_N, gd_S, gd_P, gd_W, gd_X, gd_logit, gd_Y, gd_ret>>
thinVars == <<th_pc, th_err, th_args, th_draws, th_samples, th_i, th_ret>>
vars == <<mainVars, dataVars, thinVars>>

----------------------------------------------------------------------------
(* Bounds of the model. *)

MaxDims == 4        \* largest --num-dimensions main is run with
MaxRuns == 2        \* consecutive runs of the script
MaxN == 2           \* largest N get_data is called with
MaxP == 5           \* largest P (and S) get_data is called with
MaxSamples == 3     \* largest --num-samples
MaxChains == 2      \* largest --num-chains
MaxThinning == 3    \* largest --thinning of run_inference

(* The --thinning values main is run with: main only passes the value on, and
   the slice of line 136 raises for 0 and for no other value. *)
MainThinning == {0, 1}

(* Posterior statistics, as integers. *)
MeanVals == {-2, 0, 2}
StdVals == {0, 1}

(* Covariates of magnitude 1.0 and coefficients of magnitude 1.0, either sign. *)
XVals == {-1, 1}
WVals == {-1, 1}

----------------------------------------------------------------------------
(* Helpers on sequences. *)

Range(s) == {s[i] : i \in 1..Len(s)}

IsPrefix(s, t) == Len(s) <= Len(t) /\ \A i \in 1..Len(s) : s[i] = t[i]

----------------------------------------------------------------------------
(* get_data: what the call does to its caller. *)

\* line 151
EntryAssertion(S, P) == S < P /\ P > 1 /\ S > 0

\* line 166-167: the columns the two pairwise interactions read
QuadColumns == {0, 1, 2, 3}

\* line 165
pairwise_coefficient == 3

\* the exception get_data(N, S, P) raises, or "none"
GetDataOutcome(S, P) ==
    IF ~EntryAssertion(S, P) THEN "AssertionError"
    ELSE IF \E c \in QuadColumns : c >= P THEN "IndexError"
    ELSE "none"

----------------------------------------------------------------------------
(* run_inference: what the call does to its caller. *)

\* line 136: v[::0] raises "slice step cannot be zero"
SliceOutcome(t) == IF t = 0 THEN "ValueError" ELSE "none"

----------------------------------------------------------------------------
(* main(args) *)

\* line 202, commented out in the source: for N in [64, 128, 256, 512]
NListCommentedOut == <<64, 128, 256, 512>>

\* line 201: for N in [200]
NList == <<200>>

\* lines 284-290: the pickle file main names
LogFile == "slog.pkl"

\* the steps of main, in the order of its text
Pipeline == <<"get_data", "run_inference", "dimensions", "pairs", "report">>

\* lines 296-304: the arguments that main reads
ArgSet == [num_dimensions : 1..MaxDims,
           active_dimensions : 0..MaxDims,
           thinning : MainThinning]

\* lines 231-232: "inactive" when lower < 0.0 and upper > 0.0
IsActive(m, s) ==
    LET lower == m - 2 * s
        upper == m + 2 * s
    IN  ~(lower < 0 /\ upper > 0)

\* line 256: list(itertools.product(active_dims, active_dims))
Product(a) ==
    LET k == Len(a)
    IN  [n \in 1..(k * k) |-> <<a[((n - 1) \div k) + 1], a[((n - 1) % k) + 1]>>]

\* the memory of a process that has just entered main
FreshRun ==
    /\ pc = "get_data" /\ err = "none"
    /\ trace = <<>> /\ n_idx = 1
    /\ means = <<>> /\ stds = <<>>
    /\ dim = 0 /\ mean = 0 /\ std = 0
    /\ active_dims = <<>> /\ dim_pairs = <<>> /\ pair_idx = 0
    /\ pair_lines = <<>> /\ active_quad_dims = <<>>

MainIdle ==
    /\ pc = "idle" /\ err = "none" /\ args = <<>> /\ run = 0 /\ files = {}
    /\ trace = <<>> /\ n_idx = 0
    /\ means = <<>> /\ stds = <<>>
    /\ dim = 0 /\ mean = 0 /\ std = 0
    /\ active_dims = <<>> /\ dim_pairs = <<>> /\ pair_idx = 0
    /\ pair_lines = <<>> /\ active_quad_dims = <<>>

DataIdle ==
    /\ gd_pc = "idle" /\ gd_err = "none" /\ gd_N = 0 /\ gd_S = 0 /\ gd_P = 0
    /\ gd_W = <<>> /\ gd_X = <<>> /\ gd_logit = <<>> /\ gd_Y = <<>>
    /\ gd_ret = <<>>

ThinIdle ==
    /\ th_pc = "idle" /\ th_err = "none" /\ th_args = <<>>
    /\ th_draws = <<>> /\ th_samples = <<>> /\ th_i = 0 /\ th_ret = <<>>

Init ==
    /\ args \in ArgSet
    /\ run = 1
    /\ files = {}
    /\ FreshRun
    /\ DataIdle /\ ThinIdle

Raise(e) == pc' = "error" /\ err' = e

\* lines 203-206: results[N] = {} and the call of get_data
GetData ==
    /\ pc = "get_data"
    /\ LET e == GetDataOutcome(args.active_dimensions, args.num_dimensions)
       IN  IF e = "none"
           THEN /\ pc' = "run_inference"
                /\ trace' = Append(trace, "get_data")
                /\ err' = err
           ELSE /\ Raise(e)
                /\ trace' = trace
    /\ UNCHANGED <<dataVars, thinVars, args, run, files, n_idx, means, stds, dim, mean, std,
                   active_dims, dim_pairs, pair_idx, pair_lines,
                   active_quad_dims>>

\* lines 210-216: the hyperparameters and the call of run_inference
RunInference ==
    /\ pc = "run_inference"
    /\ LET e == SliceOutcome(args.thinning)
       IN  IF e = "none"
           THEN /\ pc' = "analyze"
                /\ trace' = Append(trace, "run_inference")
                /\ err' = err
           ELSE /\ Raise(e)
                /\ trace' = trace
    /\ UNCHANGED <<dataVars, thinVars, args, run, files, n_idx, means, stds, dim, mean, std,
                   active_dims, dim_pairs, pair_idx, pair_lines,
                   active_quad_dims>>

\* lines 219-227: the vmapped analyze_dimension over all dimensions.  The loop
\* of line 229 reads entry dim of means and stds in iteration dim, once: the
\* model draws each entry when it is read, and means and stds hold the entries
\* read so far.
AnalyzeDimensions ==
    /\ pc = "analyze"
    /\ means' = <<>>
    /\ stds' = <<>>
    /\ active_dims' = <<>>
    /\ dim' = 0
    /\ pc' = "classify"
    /\ UNCHANGED <<dataVars, thinVars, err, args, run, files, trace, n_idx, mean, std, dim_pairs,
                   pair_idx, pair_lines, active_quad_dims>>

\* lines 229-235: one iteration of the loop over the dimensions
ClassifyDimension ==
    /\ pc = "classify"
    /\ dim < args.num_dimensions
    /\ mean' \in MeanVals
    /\ std' \in StdVals
    /\ means' = Append(means, mean')
    /\ stds' = Append(stds, std')
    /\ active_dims' = IF IsActive(mean', std')
                      THEN Append(active_dims, dim)
                      ELSE active_dims
    /\ dim' = dim + 1
    /\ UNCHANGED <<dataVars, thinVars, pc, err, args, run, files, trace, n_idx,
                   dim_pairs, pair_idx, pair_lines, active_quad_dims>>

\* lines 237-258: the singleton counts, then the pairs of active dimensions.
\* means and stds are rebound to the pair statistics, of which the loop of
\* line 259 reads one entry per iteration: the model draws each when read.
PairSetup ==
    /\ pc = "classify"
    /\ dim = args.num_dimensions
    /\ trace' = Append(trace, "dimensions")
    /\ active_quad_dims' = <<>>
    /\ dim_pairs' = IF Len(active_dims) > 0 THEN Product(active_dims) ELSE <<>>
    /\ means' = <<>> /\ stds' = <<>>
    /\ pair_idx' = 0
    /\ pair_lines' = <<>>
    /\ pc' = "pairs"
    /\ UNCHANGED <<dataVars, thinVars, err, args, run, files, n_idx, dim, mean, std, active_dims>>

\* lines 259-262: an iteration that ends at "continue"
SkipPair ==
    /\ pc = "pairs"
    /\ pair_idx < Len(dim_pairs)
    /\ LET dim_pair == dim_pairs[pair_idx + 1]
       IN  dim_pair[1] >= dim_pair[2]
    /\ mean' \in MeanVals
    /\ std' \in StdVals
    /\ pair_idx' = pair_idx + 1
    /\ UNCHANGED <<dataVars, thinVars, pc, err, args, run, files, trace, n_idx, means, stds, dim,
                   active_dims, dim_pairs, pair_lines, active_quad_dims>>

\* the line printed for a pair: the dimensions are printed one-based
PairLine(text, dim1, dim2) == [text |-> text, d1 |-> dim1 + 1, d2 |-> dim2 + 1]

\* lines 259-270: an iteration that prints a verdict
ReportPair ==
    /\ pc = "pairs"
    /\ pair_idx < Len(dim_pairs)
    /\ LET dim_pair == dim_pairs[pair_idx + 1]
           dim1 == dim_pair[1]
           dim2 == dim_pair[2]
       IN  /\ ~(dim1 >= dim2)
           /\ mean' \in MeanVals
           /\ std' \in StdVals
           /\ IF IsActive(mean', std')
              THEN /\ pair_lines' = Append(pair_lines,
                          PairLine("Identified pairwise interaction", dim1, dim2))
                   /\ active_quad_dims' = Append(active_quad_dims, <<dim1, dim2>>)
              ELSE /\ pair_lines' = Append(pair_lines,
                          PairLine("No pairwise interaction", dim1, dim2))
                   /\ active_quad_dims' = active_quad_dims
    /\ pair_idx' = pair_idx + 1
    /\ UNCHANGED <<dataVars, thinVars, pc, err, args, run, files, trace, n_idx, means, stds, dim,
                   active_dims, dim_pairs>>

\* lines 272-281, and the head of the loop of line 201
PairsDone ==
    /\ pc = "pairs"
    /\ pair_idx = Len(dim_pairs)
    /\ trace' = Append(trace, "pairs")
    /\ IF n_idx < Len(NList)
       THEN pc' = "get_data" /\ n_idx' = n_idx + 1
       ELSE pc' = "report" /\ n_idx' = n_idx
    /\ UNCHANGED <<dataVars, thinVars, err, args, run, files, means, stds, dim, mean, std,
                   active_dims, dim_pairs, pair_idx, pair_lines,
                   active_quad_dims>>

\* lines 283-290 with the pickle.dump of lines 289-290 not commented out
ReportDumpsPickle ==
    /\ pc = "report"
    /\ trace' = Append(trace, "report")
    /\ files' = files \cup {LogFile}
    /\ pc' = "done"
    /\ UNCHANGED <<dataVars, thinVars, err, args, run, n_idx, means, stds, dim,
                   mean, std, active_dims, dim_pairs, pair_idx, pair_lines,
                   active_quad_dims>>

\* lines 283-290: print("RESULTS", results); the pickle.dump is commented out
Report ==
    /\ pc = "report"
    /\ trace' = Append(trace, "report")
    /\ pc' = "done"
    /\ UNCHANGED <<dataVars, thinVars, err, args, run, files, n_idx, means, stds, dim, mean, std,
                   active_dims, dim_pairs, pair_idx, pair_lines,
                   active_quad_dims>>

\* lines 293-312: the script is started again with the same command line, in
\* a new process
NextRun ==
    /\ pc \in {"done", "error"}
    /\ run < MaxRuns
    /\ run' = run + 1
    /\ args' = args
    /\ pc' = "get_data" /\ err' = "none"
    /\ trace' = <<>> /\ n_idx' = 1
    /\ means' = <<>> /\ stds' = <<>>
    /\ dim' = 0 /\ mean' = 0 /\ std' = 0
    /\ active_dims' = <<>> /\ dim_pairs' = <<>> /\ pair_idx' = 0
    /\ pair_lines' = <<>> /\ active_quad_dims' = <<>>
    /\ UNCHANGED <<files, dataVars, thinVars>>

Next ==
    \/ GetData
    \/ RunInference
    \/ AnalyzeDimensions
    \/ ClassifyDimension
    \/ PairSetup
    \/ SkipPair
    \/ ReportPair
    \/ PairsDone
    \/ Report
    \/ NextRun

Spec == Init /\ [][Next]_vars

----------------------------------------------------------------------------
(* get_data(N, S, P, seed), statement by statement *)

RECURSIVE SumTo(_, _)
\* onp.sum over the first n entries of f
SumTo(f, n) == IF n = 0 THEN 0 ELSE f[n] + SumTo(f, n - 1)

\* line 167 for one row of X: X[:, 0:S] * W summed, plus the two interactions
Logit(row, W, S) ==
    SumTo([i \in 1..S |-> row[i] * W[i]], S)
      + pairwise_coefficient * (row[1] * row[2] - row[3] * row[4])

\* line 166
expected_quad_dims == <<<<0, 1>>, <<2, 3>>>>

\* X.shape of an array of N rows built with P columns
Shape(X, P) == IF Len(X) = 0 THEN <<0, P>> ELSE <<Len(X), Len(X[1])>>

InitData ==
    /\ gd_pc = "entry" /\ gd_err = "none"
    /\ gd_N \in 1..MaxN
    /\ gd_S \in 0..MaxP
    /\ gd_P \in 0..MaxP
    /\ gd_W = <<>> /\ gd_X = <<>> /\ gd_logit = <<>> /\ gd_Y = <<>>
    /\ gd_ret = <<>>
    /\ MainIdle /\ ThinIdle

\* lines 151-152
GdEntry ==
    /\ gd_pc = "entry"
    /\ IF EntryAssertion(gd_S, gd_P)
       THEN gd_pc' = "gen_W" /\ gd_err' = gd_err
       ELSE gd_pc' = "raised" /\ gd_err' = "AssertionError"
    /\ UNCHANGED <<mainVars, thinVars, gd_N, gd_S, gd_P, gd_W, gd_X, gd_logit,
                   gd_Y, gd_ret>>

\* lines 155-157
GdGenW ==
    /\ gd_pc = "gen_W"
    /\ gd_W' \in [1..gd_S -> WVals]
    /\ gd_pc' = "gen_X"
    /\ UNCHANGED <<mainVars, thinVars, gd_err, gd_N, gd_S, gd_P, gd_X,
                   gd_logit, gd_Y, gd_ret>>

\* lines 160-162
GdGenX ==
    /\ gd_pc = "gen_X"
    /\ gd_X' \in [1..gd_N -> [1..gd_P -> XVals]]
    /\ gd_pc' = "logit"
    /\ UNCHANGED <<mainVars, thinVars, gd_err, gd_N, gd_S, gd_P, gd_W,
                   gd_logit, gd_Y, gd_ret>>

\* lines 165-167: X[:, c] raises IndexError for a column c the array lacks
GdLogit ==
    /\ gd_pc = "logit"
    /\ IF \E c \in QuadColumns : c >= gd_P
       THEN /\ gd_pc' = "raised" /\ gd_err' = "IndexError"
            /\ gd_logit' = gd_logit
       ELSE /\ gd_logit' = [r \in 1..gd_N |-> Logit(gd_X[r], gd_W, gd_S)]
            /\ gd_pc' = "bernoulli" /\ gd_err' = gd_err
    /\ UNCHANGED <<mainVars, thinVars, gd_N, gd_S, gd_P, gd_W, gd_X, gd_Y,
                   gd_ret>>

\* lines 168-169: a Bernoulli draw per row, mapped to -1 and 1
GdBernoulli ==
    /\ gd_pc = "bernoulli"
    /\ gd_Y' \in [1..gd_N -> {-1, 1}]
    /\ gd_pc' = "exit"
    /\ UNCHANGED <<mainVars, thinVars, gd_err, gd_N, gd_S, gd_P, gd_W, gd_X,
                   gd_logit, gd_ret>>

\* lines 171-174
GdExit ==
    /\ gd_pc = "exit"
    /\ IF Shape(gd_X, gd_P) = <<gd_N, gd_P>> /\ Len(gd_Y) = gd_N
       THEN /\ gd_ret' = [X |-> gd_X, Y |-> gd_Y, W |-> gd_W,
                          pairwise_coefficient |-> pairwise_coefficient,
                          expected_quad_dims |-> expected_quad_dims]
            /\ gd_pc' = "returned" /\ gd_err' = gd_err
       ELSE /\ gd_pc' = "raised" /\ gd_err' = "AssertionError"
            /\ gd_ret' = gd_ret
    /\ UNCHANGED <<mainVars, thinVars, gd_N, gd_S, gd_P, gd_W, gd_X, gd_logit,
                   gd_Y>>

NextData ==
    \/ GdEntry
    \/ GdGenW
    \/ GdGenX
    \/ GdLogit
    \/ GdBernoulli
    \/ GdExit

SpecData == InitData /\ [][NextData]_vars

----------------------------------------------------------------------------
(* run_inference: the samples and their thinning *)

\* the sample sites of model(), lines 58-68, in the order they are recorded
Sites == <<"eta1", "msq", "xisq", "eta2", "lambda", "kappa", "omega">>

\* the values a site takes in one draw
DrawVals == {0, 1}

RECURSIVE PyRange(_, _, _)
\* range(start, stop, step) for step > 0: the indices a slice visits
PyRange(start, stop, step) ==
    IF start >= stop THEN <<>>
    ELSE <<start>> \o PyRange(start + step, stop, step)

\* a slice that starts one stride late: v[t-1::t]
SliceFromStride(v, t) ==
    LET idx == PyRange(t - 1, Len(v), t)
    IN  [k \in 1..Len(idx) |-> v[idx[k] + 1]]

\* line 136: v[::t] for t > 0
Slice(v, t) ==
    LET idx == PyRange(0, Len(v), t)
    IN  [k \in 1..Len(idx) |-> v[idx[k] + 1]]

\* line 133: mcmc.get_samples(), every site an array with one entry per draw
GetSamples(draws) ==
    [i \in 1..Len(Sites) |->
        [d \in 1..Len(draws) |->
            [site |-> Sites[i], draw |-> d - 1, val |-> draws[d]]]]

InitThin ==
    /\ th_pc = "mcmc" /\ th_err = "none"
    /\ th_args \in [num_samples : 0..MaxSamples,
                    num_chains : 1..MaxChains,
                    thinning : 0..MaxThinning]
    /\ th_draws = <<>> /\ th_samples = <<>> /\ th_i = 0 /\ th_ret = <<>>
    /\ MainIdle /\ DataIdle

\* lines 125-133: the chains are run and their samples collected
ThRunMCMC ==
    /\ th_pc = "mcmc"
    /\ th_draws' \in [1..(th_args.num_samples * th_args.num_chains) -> DrawVals]
    /\ th_samples' = GetSamples(th_draws')
    /\ th_i' = 1
    /\ th_pc' = "thin"
    /\ UNCHANGED <<mainVars, dataVars, th_err, th_args, th_ret>>

\* lines 135-136: one iteration of the loop over samples.items()
ThThinSite ==
    /\ th_pc = "thin"
    /\ th_i <= Len(Sites)
    /\ IF SliceOutcome(th_args.thinning) = "none"
       THEN /\ th_samples' = [th_samples EXCEPT
                                 ![th_i] = Slice(th_samples[th_i], th_args.thinning)]
            /\ th_i' = th_i + 1
            /\ th_pc' = th_pc /\ th_err' = th_err
       ELSE /\ th_pc' = "raised" /\ th_err' = SliceOutcome(th_args.thinning)
            /\ UNCHANGED <<th_samples, th_i>>
    /\ UNCHANGED <<mainVars, dataVars, th_args, th_draws, th_ret>>

\* line 138
ThReturn ==
    /\ th_pc = "thin"
    /\ th_i > Len(Sites)
    /\ th_ret' = th_samples
    /\ th_pc' = "returned"
    /\ UNCHANGED <<mainVars, dataVars, th_err, th_args, th_draws, th_samples,
                   th_i>>

NextThin ==
    \/ ThRunMCMC
    \/ ThThinSite
    \/ ThReturn

SpecThin == InitThin /\ [][NextThin]_vars

----------------------------------------------------------------------------
(* The claims about main, checked under Spec. *)

\* how many steps of Pipeline are finished when main is at p
StepsBefore(p) ==
    CASE p = "get_data" -> 0
      [] p = "run_inference" -> 1
      [] p \in {"analyze", "classify"} -> 2
      [] p = "pairs" -> 3
      [] p = "report" -> 4
      [] p = "done" -> 5

\* C1, as stated: every run of main performs each of the five steps exactly
\* once, in the order get_data, run_inference, dimensions, pairs, report; so a
\* run that has ended has performed all five.
C1_EveryRunDoesAllSteps ==
    pc \in {"done", "error"} => trace = Pipeline

\* C1, amended: in every run of main the steps happen at most once each and in
\* the fixed order (the finished steps are always a prefix of the pipeline, and
\* main is at the step after the last finished one); the pairs are analysed
\* only after all P dimensions are classified; a run that prints RESULTS has
\* performed each step exactly once; a run in which get_data or run_inference
\* raises ends there, with no later step performed and no RESULTS printed.
C1_StepsInOrderAtMostOnce ==
    /\ IsPrefix(trace, Pipeline)
    /\ pc # "error" => Len(trace) = StepsBefore(pc)
    /\ pc = "done" => trace = Pipeline
    /\ pc \in {"pairs", "report", "done"} => dim = args.num_dimensions
    /\ pc \in {"report", "done"} => pair_idx = Len(dim_pairs)
    /\ pc = "error" => /\ err \in {"AssertionError", "IndexError", "ValueError"}
                       /\ Len(trace) = (IF err = "ValueError" THEN 1 ELSE 0)

\* a run that went through the whole pipeline and printed pair verdicts
C1_Witness ==
    pc = "done" /\ trace = Pipeline /\ Len(pair_lines) > 0

\* zero lies in the closed interval [m - 2 s, m + 2 s]
ContainsZero(m, s) == m - 2 * s <= 0 /\ 0 <= m + 2 * s

\* C2: a classified dimension d is in active_dims exactly when the closed
\* interval [means[d] - 2 stds[d], means[d] + 2 stds[d]] does not contain zero.
C2_ActiveIffIntervalExcludesZero ==
    pc = "classify" =>
        \A d \in 0..(dim - 1) :
            (d \in Range(active_dims)) <=> ~ContainsZero(means[d + 1], stds[d + 1])

\* What the code does for C2: d is in active_dims exactly when zero is not
\* strictly inside the interval.
C2_ActiveIffZeroNotStrictlyInside ==
    pc = "classify" =>
        \A d \in 0..(dim - 1) :
            (d \in Range(active_dims)) <=>
                ~(means[d + 1] - 2 * stds[d + 1] < 0 /\ means[d + 1] + 2 * stds[d + 1] > 0)

\* no persistent state at the start: the file system of the first run
InitialFiles == {}

\* C5: a run of main writes, creates and modifies no file, and every run
\* starts from the same memory and the same files as the first one.
C5_NoPersistentState ==
    /\ files = InitialFiles
    /\ (pc = "get_data" /\ n_idx = 1) => FreshRun

\* a second run has ended after a first one went through the whole pipeline
C5_Witness ==
    run = 2 /\ pc = "done"

\* the pairs a verdict was printed for, zero-based
ReportedPairs == {<<pair_lines[i].d1 - 1, pair_lines[i].d2 - 1>> : i \in 1..Len(pair_lines)}

\* the pairs (i, j), i < j, of active dimensions
ActivePairs == {q \in Range(active_dims) \X Range(active_dims) : q[1] < q[2]}

\* The part of C6 about which pairs are reported: once the loop is over, the
\* reported pairs are the pairs i < j of active dimensions, each once, and
\* active_quad_dims holds reported pairs only.
C6_ReportedPairsAreActivePairs ==
    pc \in {"report", "done"} =>
        /\ ReportedPairs = ActivePairs
        /\ Len(pair_lines) = Cardinality(ActivePairs)
        /\ Range(active_quad_dims) \subseteq ReportedPairs
        /\ (active_dims = <<>> => active_quad_dims = <<>>)

\* C6: the reported pairs are exactly the pairs i < j of active dimensions,
\* each once, and a reported pair is in active_quad_dims exactly when its
\* closed interval [mean - 2 std, mean + 2 std] does not contain zero.
C6_PairsAmongActiveDims ==
    /\ pc \in {"report", "done"} =>
        /\ ReportedPairs = ActivePairs
        /\ Len(pair_lines) = Cardinality(ActivePairs)
        /\ (active_dims = <<>> => active_quad_dims = <<>>)
    /\ (pc = "pairs" /\ pair_idx > 0 /\ dim_pairs[pair_idx][1] < dim_pairs[pair_idx][2]) =>
        /\ dim_pairs[pair_idx] \in ReportedPairs
        /\ (dim_pairs[pair_idx] \in Range(active_quad_dims)) <=> ~ContainsZero(mean, std)

----------------------------------------------------------------------------
(* The claims about get_data, checked under SpecData. *)

\* C3: for arguments that pass the entry assertion get_data returns, with X of
\* shape (N, P) and Y of shape (N,); other arguments are rejected by the entry
\* assertion before W or X is generated.
C3_GetDataReturnsForAcceptedArgs ==
    gd_pc \in {"returned", "raised"} =>
        IF EntryAssertion(gd_S, gd_P)
        THEN /\ gd_pc = "returned"
             /\ Shape(gd_ret.X, gd_P) = <<gd_N, gd_P>>
             /\ Len(gd_ret.Y) = gd_N
        ELSE /\ gd_err = "AssertionError"
             /\ gd_W = <<>> /\ gd_X = <<>>

\* The summary of get_data that main's model uses agrees with its statements.
GetDataOutcomeAgrees ==
    gd_pc \in {"returned", "raised"} => gd_err = GetDataOutcome(gd_S, gd_P)

\* row with the entry of column c (zero-based) replaced by v
WithColumn(row, c, v) == [row EXCEPT ![c + 1] = v]

\* C4: the logit of a row does not depend on the columns with index >= S.
C4_OnlyFirstSColumnsCarrySignal ==
    gd_pc \in {"bernoulli", "exit", "returned"} =>
        \A r \in 1..gd_N : \A c \in gd_S..(gd_P - 1) : \A v \in XVals :
            Logit(WithColumn(gd_X[r], c, v), gd_W, gd_S) = gd_logit[r]

\* What the code does for C4: the logit does not depend on a column that is
\* neither among the first S nor one of the four interaction columns.
C4_SignalInFirstSAndQuadColumns ==
    gd_pc \in {"bernoulli", "exit", "returned"} =>
        \A r \in 1..gd_N : \A c \in (gd_S..(gd_P - 1)) \ QuadColumns : \A v \in XVals :
            Logit(WithColumn(gd_X[r], c, v), gd_W, gd_S) = gd_logit[r]

----------------------------------------------------------------------------
(* The claim about run_inference, checked under SpecThin. *)

\* ceil(n / t) for t > 0
CeilDiv(n, t) == (n + t - 1) \div t

\* C7: with thinning t >= 1 and n draws, every returned site holds exactly the
\* samples of the draws 0, t, 2t, ... below n, in that order, ceil(n / t) of
\* them; so entry k of every site comes from the same draw.
C7_UniformThinning ==
    th_pc = "returned" =>
        LET n == th_args.num_samples * th_args.num_chains
            t == th_args.thinning
        IN  /\ t >= 1
            /\ \A i \in 1..Len(Sites) :
                /\ Len(th_ret[i]) = CeilDiv(n, t)
                /\ \A k \in 1..Len(th_ret[i]) :
                    /\ (k - 1) * t < n
                    /\ th_ret[i][k] = [site |-> Sites[i],
                                       draw |-> (k - 1) * t,
                                       val |-> th_draws[(k - 1) * t + 1]]

\* samples were dropped and the last kept draw is not the last draw
C7_Witness ==
    /\ th_pc = "returned"
    /\ th_args.thinning >= 2
    /\ Len(th_draws) > th_args.thinning
    /\ Len(th_draws) % th_args.thinning # 1
    /\ Len(th_ret[1]) >= 2

====
